---- MODULE Spec2Model ----
(***************************************************************************)
(* A model of the retrieval engine of UppetitGPT:                          *)
(*   rag/index_build.py  the offline index build (main) and                *)
(*                       split_into_chunks                                 *)
(*   rag/retrieve.py     load_index, apply_bonuses, retrieve               *)
(*   bot.py              the two handlers that call retrieve               *)
(*                                                                         *)
(* Strings are sequences of Unicode code points, so that a Cyrillic and a  *)
(* Latin letter that look alike are different characters.                  *)
(***************************************************************************)
EXTENDS Integers, Sequences, FiniteSets, TLC

VARIABLES
    \* ---- the index directory and the build process (index_build.main)
    faissFile,      \* index/faiss.index: NoFile or [build, rows, whole]
    metaFile,       \* index/meta.jsonl:  NoFile or [build, recs]
    committed,      \* history: the last snapshot a build wrote completely
    startDisk,      \* history: the two files as the running build found them
    dataDocs,       \* number of eligible (.md/.txt) files under data_dir
    cwdDocs,        \* number of eligible files in the current working directory
    bpc,            \* where main is
    bid,            \* number of builds started
    files,          \* len(files)
    fileIdx,        \* position of the loop over `files`
    nchunks,        \* len(chunks) of the file being processed
    records,        \* len(records)
    vectors,        \* len(vectors)
    short,          \* history: the embedder returned a wrong number of vectors
    \* ---- one handler of the serving process (bot.py) and its call of retrieve
    qpc,            \* where the handler is
    caller,         \* "question" (handle_question) or "kb" (handle_kb)
    qindex,         \* what faiss.read_index returned
    qmeta,          \* what the loop over meta.jsonl returned
    qout,           \* how the handler ended
    \* ---- one call of retrieve on a loaded handle
    rpc,            \* "idle", "returned" or "raised"
    query,          \* the question as asked
    meta,           \* the records load_index returned
    top_k,          \* settings.top_k
    relevance_threshold,    \* settings.relevance_threshold, in hundredths
    max_ctx_chars,  \* settings.max_ctx_chars
    hits,           \* what index.search returned: (I[0][i], D[0][i])
    candidates,     \* the list `candidates` before it is sorted
    chunks,         \* the chunks returned
    status,         \* the status returned
    context,        \* the context returned
    \* ---- one call of apply_bonuses
    apc,            \* "call" before it, "scored" after it
    a_query,        \* its arguments: query_norm,
    a_rec,          \*   meta_rec
    a_base,         \*   and base_score, in hundredths
    a_score,        \* its result
    \* ---- one call of split_into_chunks (index_build.py)
    spc,            \* "call" before it, "loop" at the while, "done" after it
    s_text,         \* `text`: the argument, then the normalised text
    min_len,        \* its parameters
    max_len,
    overlap,
    s_i,            \* `i`: the start offset of the next window
    s_chunks,       \* `chunks`
    s_starts        \* history: the start offset of each chunk appended

idxVars == <<faissFile, metaFile, committed, startDisk, dataDocs, cwdDocs,
             bpc, bid, files, fileIdx, nchunks, records, vectors, short,
             qpc, caller, qindex, qmeta, qout>>

retVars == <<rpc, query, meta, top_k, relevance_threshold, max_ctx_chars,
             hits, candidates, chunks, status, context>>

bonVars == <<apc, a_query, a_rec, a_base, a_score>>

splVars == <<spc, s_text, min_len, max_len, overlap, s_i, s_chunks, s_starts>>

vars == <<idxVars, retVars, bonVars, splVars>>

\* ------------------------------------------------------------------ bounds
MaxBuilds == 1
MaxDocs == 2
MaxChunks == 2
MaxRows == 3
MaxTopK == 2
MaxCtx == 21
\* split_into_chunks: the characters of its text, the largest min_len, max_len
\* and overlap, and the passes of its loop that are followed.
MaxText == 4
MaxParam == 3
MaxIter == 5

\* ------------------------------------------------------------------ helpers
Min(a, b) == IF a <= b THEN a ELSE b

NoFile == [build |-> -1]

Disk == <<faissFile, metaFile>>

\* An index some earlier build wrote completely.
Snapshot(b, n) == << [build |-> b, rows |-> n, whole |-> TRUE],
                     [build |-> b, recs |-> n] >>

\* ------------------------------------------------------------------ strings
\* str.lower() on the letters that occur here: Latin A-Z, Cyrillic А-Я and Ё.
Lower(c) ==
    IF c \in 65..90 THEN c + 32
    ELSE IF c \in 1040..1071 THEN c + 32
    ELSE IF c = 1025 THEN 1105
    ELSE c

LowerStr(s) == [i \in 1..Len(s) |-> Lower(s[i])]

\* \s of the regular expressions, and what str.split() splits at.
IsSpace(c) == c \in {9, 10, 11, 12, 13, 32}

\* The characters normalize keeps: [а-яa-z0-9ё\-\s/#]
Kept(c) ==
    \/ c \in 1072..1103
    \/ c \in 97..122
    \/ c \in 48..57
    \/ c \in {1105, 45, 47, 35}
    \/ IsSpace(c)

\* str.split(): the maximal runs of characters that are not whitespace.
RECURSIVE SplitFrom(_, _, _)
SplitFrom(s, i, cur) ==
    IF i > Len(s) THEN (IF cur = <<>> THEN <<>> ELSE <<cur>>)
    ELSE IF IsSpace(s[i])
      THEN (IF cur = <<>> THEN <<>> ELSE <<cur>>) \o SplitFrom(s, i + 1, <<>>)
      ELSE SplitFrom(s, i + 1, Append(cur, s[i]))

Split(s) == SplitFrom(s, 1, <<>>)

\* sep.join(parts)
RECURSIVE Join(_, _)
Join(parts, sep) ==
    IF parts = <<>> THEN <<>>
    ELSE IF Len(parts) = 1 THEN parts[1]
    ELSE parts[1] \o sep \o Join(Tail(parts), sep)

\* normalize: lower-case, every run of other characters becomes a space, runs
\* of whitespace become one space, no space at either end.
normalize(text) ==
    LET low == LowerStr(text)
        t == [i \in 1..Len(low) |-> IF Kept(low[i]) THEN low[i] ELSE 32]
    IN  Join(Split(t), <<32>>)

\* `needle in hay` of two strings.
Contains(hay, needle) ==
    \E i \in 0..(Len(hay) - Len(needle)) :
        SubSeq(hay, i + 1, i + Len(needle)) = needle

\* ------------------------------------------------------------ apply_bonuses
\* Scores are counted in hundredths: 0.05 is 5.
TermBonus == 5

\* KEYWORD_BOOSTS, retrieve.py 25-33:
\*   1  "касса"
\*   2  "x-отчёт"
\*   3  "интернет"
\*   4  "звук бизнес"
\*   5  "кондицион"
\*   6  "дезинсек"
KEYWORD_BOOSTS == <<
    [kw |-> <<1082, 1072, 1089, 1089, 1072>>, bonus |-> 5],
    [kw |-> <<120, 45, 1086, 1090, 1095, 1105, 1090>>, bonus |-> 5],
    [kw |-> <<1080, 1085, 1090, 1077, 1088, 1085, 1077, 1090>>, bonus |-> 5],
    [kw |-> <<1079, 1074, 1091, 1082, 32, 1073, 1080, 1079, 1085, 1077, 1089>>, bonus |-> 5],
    [kw |-> <<1082, 1086, 1085, 1076, 1080, 1094, 1080, 1086, 1085>>, bonus |-> 5],
    [kw |-> <<1076, 1077, 1079, 1080, 1085, 1089, 1077, 1082>>, bonus |-> 5]
>>

\* Lines 68-72 with one bonus at most: the first token found stands for all.
TermHitsCapped(query_norm, title, section, path) ==
    LET toks == Split(query_norm)
        found == { t \in {toks[i] : i \in 1..Len(toks)} :
                     /\ Len(t) >= 3
                     /\ (Contains(title, t) \/ Contains(section, t) \/ Contains(path, t)) }
    IN  IF found = {} THEN {} ELSE {CHOOSE t \in found : TRUE}

\* retrieve.py 68-72: the distinct tokens of the query, of three characters or
\* more, that occur in the record's title, section or path.
TermHits(query_norm, title, section, path) ==
    LET toks == Split(query_norm) IN
    { t \in {toks[i] : i \in 1..Len(toks)} :
        /\ Len(t) >= 3
        /\ (Contains(title, t) \/ Contains(section, t) \/ Contains(path, t)) }

\* The test of line 77 with the title and the section left out.
KeywordPlaceInPathOnly(kw, title, section, path) ==
    Contains(path, Split(kw)[1])

\* retrieve.py 77: kw.split()[0] in path or kw in title or kw in section
KeywordPlace(kw, title, section, path) ==
    \/ Contains(path, Split(kw)[1])
    \/ Contains(title, kw)
    \/ Contains(section, kw)

\* Lines 75-78 with the test of line 76 left out.
KeywordHitsAnyQuery(query_norm, title, section, path) ==
    { i \in 1..Len(KEYWORD_BOOSTS) :
        KeywordPlace(KEYWORD_BOOSTS[i].kw, title, section, path) }

\* retrieve.py 75-78: the entries of KEYWORD_BOOSTS that add their bonus.
KeywordHits(query_norm, title, section, path) ==
    { i \in 1..Len(KEYWORD_BOOSTS) :
        /\ Contains(query_norm, KEYWORD_BOOSTS[i].kw)
        /\ KeywordPlace(KEYWORD_BOOSTS[i].kw, title, section, path) }

RECURSIVE SumBonus(_)
SumBonus(is) ==
    IF is = {} THEN 0
    ELSE LET i == CHOOSE j \in is : TRUE
         IN  KEYWORD_BOOSTS[i].bonus + SumBonus(is \ {i})

apply_bonuses(query_norm, meta_rec, base_score) ==
    LET title == LowerStr(meta_rec.title)
        section == LowerStr(meta_rec.section)
        path == LowerStr(meta_rec.path)
    IN  base_score
          + TermBonus * Cardinality(TermHits(query_norm, title, section, path))
          + SumBonus(KeywordHits(query_norm, title, section, path))

\* ----------------------------------------------------------------- retrieve
\* The records of the loaded meta.jsonl (updated_at, department and chunk_id
\* are carried along by retrieve and read by nothing modelled here):
\*   "kassa.md"  title "Касса"     section ""       text "ab"
\*   "wifi.md"   title "Интернет"  section "Касса"  text "c"
\*   "a/b.txt"   title "b"         section ""       text "de"
Records == <<
    [path |-> <<107, 97, 115, 115, 97, 46, 109, 100>>,
     title |-> <<1050, 1072, 1089, 1089, 1072>>,
     section |-> <<>>,
     text |-> <<97, 98>>],
    [path |-> <<119, 105, 102, 105, 46, 109, 100>>,
     title |-> <<1048, 1085, 1090, 1077, 1088, 1085, 1077, 1090>>,
     section |-> <<1050, 1072, 1089, 1089, 1072>>,
     text |-> <<99>>],
    [path |-> <<97, 47, 98, 46, 116, 120, 116>>,
     title |-> <<98>>,
     section |-> <<>>,
     text |-> <<100, 101>>]
>>

\* meta: the first n lines of the file, row i of the index beside line i.
MetaOf(n) == [i \in 1..n |-> Records[((i - 1) % Len(Records)) + 1]]

\* The questions asked: "Касса!" and "нет интернет"
Queries == { <<1050, 1072, 1089, 1089, 1072, 33>>,
             <<1085, 1077, 1090, 32, 1080, 1085, 1090, 1077, 1088, 1085, 1077, 1090>> }

\* Similarities (hundredths) the index reports, and thresholds configured.
Sims == {10, 20, 25}
Thresholds == {0, 5, 25}

\* Sequences of length n over S without repetition / in non-increasing order.
RECURSIVE Injections(_, _)
Injections(S, n) ==
    IF n = 0 THEN {<<>>}
    ELSE UNION { {Append(p, x) : x \in S \ {p[i] : i \in 1..Len(p)}} :
                 p \in Injections(S, n - 1) }

RECURSIVE Descending(_, _)
Descending(S, n) ==
    IF n = 0 THEN {<<>>}
    ELSE UNION { {Append(p, x) : x \in {y \in S : Len(p) = 0 \/ y <= p[Len(p)]}} :
                 p \in Descending(S, n - 1) }

\* index.search(q_vec, k) on an index of ntotal rows: the row ids (from 0) of
\* the nearest rows, nearest first, and -1 in the places the index cannot fill.
SearchResults(k, ntotal) ==
    LET v == Min(k, ntotal) IN
    { [i \in 1..k |-> IF i <= v THEN [idx |-> ids[i], sim |-> sims[i]]
                               ELSE [idx |-> -1, sim |-> -100]] :
        ids \in Injections(0..(ntotal - 1), v), sims \in Descending(Sims, v) }

\* retrieve.py 95-100: the hits whose row id has a record, with their boosted
\* score; pos is the place of the hit in the search result.
RECURSIVE CandidatesFrom(_, _, _, _)
CandidatesFrom(q_norm, m, hs, i) ==
    IF i > Len(hs) THEN <<>>
    ELSE IF hs[i].idx < 0 \/ hs[i].idx >= Len(m)
      THEN CandidatesFrom(q_norm, m, hs, i + 1)
      ELSE << [score |-> apply_bonuses(q_norm, m[hs[i].idx + 1], hs[i].sim),
               rec |-> m[hs[i].idx + 1],
               pos |-> i] >>
           \o CandidatesFrom(q_norm, m, hs, i + 1)

\* A sort that is not stable: equal scores come out in reverse order.
RECURSIVE InsertBeforeEqual(_, _)
InsertBeforeEqual(sorted, x) ==
    IF sorted = <<>> THEN <<x>>
    ELSE IF Head(sorted).score > x.score
      THEN <<Head(sorted)>> \o InsertBeforeEqual(Tail(sorted), x)
      ELSE <<x>> \o sorted

\* list.sort(key=score, reverse=True) keeps elements of equal key in the order
\* they had: x goes behind every element whose score is at least its own.
RECURSIVE InsertDesc(_, _)
InsertDesc(sorted, x) ==
    IF sorted = <<>> THEN <<x>>
    ELSE IF Head(sorted).score >= x.score
      THEN <<Head(sorted)>> \o InsertDesc(Tail(sorted), x)
      ELSE <<x>> \o sorted

RECURSIVE SortDesc(_)
SortDesc(cs) ==
    IF cs = <<>> THEN <<>>
    ELSE InsertDesc(SortDesc(SubSeq(cs, 1, Len(cs) - 1)), cs[Len(cs)])

\* retrieve.py 103-118
TopChunks(cs, k) ==
    LET sorted == SortDesc(cs)
        top == SubSeq(sorted, 1, Min(k, Len(sorted)))
    IN  [i \in 1..Len(top) |->
            [text |-> top[i].rec.text, path |-> top[i].rec.path,
             title |-> top[i].rec.title, section |-> top[i].rec.section,
             score |-> top[i].score, pos |-> top[i].pos]]

RECURSIVE SumScores(_)
SumScores(cs) == IF cs = <<>> THEN 0 ELSE Head(cs).score + SumScores(Tail(cs))

\* The gate with > in place of >=.
GateStrict(cs, threshold) ==
    IF cs = <<>>
      THEN (IF 0 > threshold THEN "OK" ELSE "NO_CONTEXT")
      ELSE (IF SumScores(cs) > threshold * Len(cs) THEN "OK" ELSE "NO_CONTEXT")

\* retrieve.py 121-126: avg_score >= relevance_threshold, avg_score the sum of
\* the chunks' scores over their number, and 0.0 without chunks.
Gate(cs, threshold) ==
    IF cs = <<>>
      THEN (IF 0 >= threshold THEN "OK" ELSE "NO_CONTEXT")
      ELSE (IF SumScores(cs) >= threshold * Len(cs) THEN "OK" ELSE "NO_CONTEXT")

\* Path(p).with_suffix(""): the path without the extension of its last part.
RECURSIVE LastIndex(_, _, _)
LastIndex(s, c, i) ==
    IF i = 0 THEN 0 ELSE IF s[i] = c THEN i ELSE LastIndex(s, c, i - 1)

WithoutSuffix(p) ==
    LET slash == LastIndex(p, 47, Len(p))
        dot == LastIndex(p, 46, Len(p))
    IN  IF dot > slash + 1 /\ dot < Len(p) THEN SubSeq(p, 1, dot - 1) ELSE p

\* retrieve.py 136: "[Источник: " + src + "]\n" + text + "\n"
Piece(c) ==
    <<91, 1048, 1089, 1090, 1086, 1095, 1085, 1080, 1082, 58, 32>>
      \o WithoutSuffix(c.path) \o <<93, 10>> \o c.text \o <<10>>

\* retrieve.py 129-140
RECURSIVE CtxParts(_, _, _, _)
CtxParts(cs, i, used, max_chars) ==
    IF i > Len(cs) \/ used >= max_chars THEN <<>>
    ELSE LET whole == Piece(cs[i])
             piece == IF used + Len(whole) > max_chars
                        THEN SubSeq(whole, 1, max_chars - used)
                        ELSE whole
         IN  <<piece>> \o CtxParts(cs, i + 1, used + Len(piece), max_chars)

\* retrieve.py 142: "\n\n".join(ctx_parts)
Context(cs, max_chars) == Join(CtxParts(cs, 1, 0, max_chars), <<10, 10>>)

\* ------------------------------------------------------------ index build
\* index_build.main, lines 74-88: the walk over data_dir, and the fallback to
\* the .md/.txt files of the current working directory when the walk finds none.
FilesFound(data, cwd) == IF data # 0 THEN data ELSE cwd

\* The test of line 86 left out.
NoSourceFilesUnchecked(fs) == FALSE

\* main, lines 86-88: `if not files:` report that nothing was found and return.
NoSourceFiles(fs) == fs = 0

\* build_embeddings for a batch of n texts when the provider returns r vectors:
\* np.vstack of an empty list raises, any other count is returned as it is.
EmbedRaises(n, r) == r = 0

\* `for rec, vec in zip(pending_records, embs)`: zip stops at the shorter one.
Zipped(n, r) == Min(n, r)

BuildVarsSame == UNCHANGED <<qpc, caller, qindex, qmeta, qout, retVars, bonVars,
                             splVars>>

\* main, lines 71-94: settings, the list of files, the empty-corpus return.
BuildStart ==
    /\ bpc = "idle"
    /\ bid < MaxBuilds
    /\ \E d \in 0..MaxDocs, c \in 0..1 :
          /\ dataDocs' = d
          /\ cwdDocs' = c
          /\ files' = FilesFound(d, c)
    /\ bid' = bid + 1
    /\ startDisk' = Disk
    /\ fileIdx' = 1
    /\ nchunks' = 0
    /\ records' = 0
    /\ vectors' = 0
    /\ short' = FALSE
    /\ bpc' = IF NoSourceFiles(files') THEN "nofiles" ELSE "read"
    /\ UNCHANGED <<faissFile, metaFile, committed>>
    /\ BuildVarsSame

\* The end of one iteration of `for file_path in files`, and lines 129-131.
AfterFile(recs) ==
    IF fileIdx < files THEN "read"
    ELSE IF recs = 0 THEN "nochunks"
    ELSE "write_index"

\* main, lines 97-121: read one file and chunk it (split_into_chunks makes no
\* chunk of an empty or all-blank file); no embedding call is made for a file
\* without chunks (line 123).
BuildReadFile ==
    /\ bpc = "read"
    /\ \E n \in 0..MaxChunks :
         /\ nchunks' = n
         /\ IF n = 0
              THEN /\ bpc' = AfterFile(records)
                   /\ fileIdx' = IF fileIdx < files THEN fileIdx + 1 ELSE fileIdx
              ELSE /\ bpc' = "embed"
                   /\ fileIdx' = fileIdx
    /\ UNCHANGED <<faissFile, metaFile, committed, startDisk, dataDocs, cwdDocs,
                   bid, files, records, vectors, short>>
    /\ BuildVarsSame

\* main, lines 123-127: one embedding call per file. The provider answers
\* with r vectors for the texts sent, or the call raises.
BuildEmbed ==
    /\ bpc = "embed"
    /\ \/ /\ bpc' = "embedding_failure"          \* client.embeddings.create raises
          /\ UNCHANGED <<fileIdx, records, vectors, short>>
       \/ \E r \in 0..(nchunks + 1) :
            IF EmbedRaises(nchunks, r)
              THEN /\ bpc' = "embedding_failure"
                   /\ short' = TRUE
                   /\ UNCHANGED <<fileIdx, records, vectors>>
              ELSE /\ records' = records + Zipped(nchunks, r)
                   /\ vectors' = vectors + Zipped(nchunks, r)
                   /\ short' = (short \/ r # nchunks)
                   /\ bpc' = AfterFile(records')
                   /\ fileIdx' = IF fileIdx < files THEN fileIdx + 1 ELSE fileIdx
    /\ UNCHANGED <<faissFile, metaFile, committed, startDisk, dataDocs, cwdDocs,
                   bid, files, nchunks>>
    /\ BuildVarsSame

\* main, line 140: faiss.write_index opens index/faiss.index for writing, which
\* empties the file in place ...
BuildOpenIndex ==
    /\ bpc = "write_index"
    /\ faissFile' = [build |-> bid, rows |-> vectors, whole |-> FALSE]
    /\ bpc' = "writing_index"
    /\ UNCHANGED <<metaFile, committed, startDisk, dataDocs, cwdDocs,
                   bid, files, fileIdx, nchunks, records, vectors, short>>
    /\ BuildVarsSame

\* ... and then writes all rows.
BuildWriteIndex ==
    /\ bpc = "writing_index"
    /\ faissFile' = [faissFile EXCEPT !.whole = TRUE]
    /\ bpc' = "open_meta"
    /\ UNCHANGED <<metaFile, committed, startDisk, dataDocs, cwdDocs,
                   bid, files, fileIdx, nchunks, records, vectors, short>>
    /\ BuildVarsSame

\* main, line 141: open(meta_path, "w") empties index/meta.jsonl in place.
BuildOpenMeta ==
    /\ bpc = "open_meta"
    /\ metaFile' = [build |-> bid, recs |-> 0]
    /\ bpc' = "write_meta"
    /\ UNCHANGED <<faissFile, committed, startDisk, dataDocs, cwdDocs,
                   bid, files, fileIdx, nchunks, records, vectors, short>>
    /\ BuildVarsSame

\* main, lines 142-143: one line per record.
BuildWriteMeta ==
    /\ bpc = "write_meta"
    /\ metaFile.recs < records
    /\ metaFile' = [metaFile EXCEPT !.recs = @ + 1]
    /\ UNCHANGED <<faissFile, committed, startDisk, dataDocs, cwdDocs,
                   bpc, bid, files, fileIdx, nchunks, records, vectors, short>>
    /\ BuildVarsSame

\* main, lines 143-147: the file is closed and the build reports success.
BuildDone ==
    /\ bpc = "write_meta"
    /\ metaFile.recs = records
    /\ bpc' = "done"
    /\ committed' = Disk
    /\ UNCHANGED <<faissFile, metaFile, startDisk, dataDocs, cwdDocs,
                   bid, files, fileIdx, nchunks, records, vectors, short>>
    /\ BuildVarsSame

BuildRunning == {"read", "embed", "write_index", "writing_index",
                 "open_meta", "write_meta"}

\* The build is interrupted, or a file operation raises (read_text_file,
\* write_index, open, write): main has no handler, the process ends there.
BuildFail ==
    /\ bpc \in BuildRunning
    /\ bpc' = "failed"
    /\ UNCHANGED <<faissFile, metaFile, committed, startDisk, dataDocs, cwdDocs,
                   bid, files, fileIdx, nchunks, records, vectors, short>>
    /\ BuildVarsSame

BuildEnded == {"nofiles", "nochunks", "embedding_failure", "failed", "done"}

\* The process has ended; the operator may run the build again.
BuildExit ==
    /\ bpc \in BuildEnded
    /\ bpc' = "idle"
    /\ startDisk' = Disk
    /\ dataDocs' = 0
    /\ cwdDocs' = 0
    /\ files' = 0
    /\ fileIdx' = 1
    /\ nchunks' = 0
    /\ records' = 0
    /\ vectors' = 0
    /\ short' = FALSE
    /\ UNCHANGED <<faissFile, metaFile, committed, bid>>
    /\ BuildVarsSame

\* ------------------------------------------------- handlers and load_index
QuerySame == UNCHANGED <<faissFile, metaFile, committed, startDisk, dataDocs,
                         cwdDocs, bpc, bid, files, fileIdx, nchunks, records,
                         vectors, short, retVars, bonVars, splVars>>

\* What becomes of an exception raised inside retrieve: handle_question wraps
\* the call in try/except and answers with advice (bot.py 362-368), handle_kb
\* calls retrieve bare (bot.py 326).
OnRetrieveError(c) == IF c = "question" THEN "advice" ELSE "exception"

\* faiss.read_index on a file that is absent or not written to its end raises.
ReadIndexRaises(f) == f = NoFile \/ ~f.whole

\* open(meta_path, "r") on an absent file raises; any file that exists is read
\* line by line, whatever the number of its lines.
ReadMetaRaises(f) == f = NoFile

\* handle_question 351-360 and handle_kb 320-325: the access check and the
\* empty-text return come before the call of retrieve.
HandlerStart ==
    /\ qpc = "idle"
    /\ \E c \in {"question", "kb"}, allowed \in BOOLEAN, hasText \in BOOLEAN :
         /\ caller' = c
         /\ IF ~allowed THEN qpc' = "done" /\ qout' = "denied"
            ELSE IF ~hasText THEN qpc' = "done" /\ qout' = "no_text"
            ELSE qpc' = "read_index" /\ qout' = "none"
    /\ qindex' = NoFile
    /\ qmeta' = NoFile
    /\ QuerySame

\* load_index, line 45.
LoadReadIndex ==
    /\ qpc = "read_index"
    /\ IF ReadIndexRaises(faissFile)
         THEN qpc' = "done" /\ qout' = OnRetrieveError(caller) /\ qindex' = qindex
         ELSE qpc' = "read_meta" /\ qout' = qout /\ qindex' = faissFile
    /\ UNCHANGED <<caller, qmeta>>
    /\ QuerySame

\* load_index, lines 46-51: the handle (index, meta) is returned as read.
LoadReadMeta ==
    /\ qpc = "read_meta"
    /\ IF ReadMetaRaises(metaFile)
         THEN qpc' = "done" /\ qout' = OnRetrieveError(caller) /\ qmeta' = qmeta
         ELSE qpc' = "embed_query" /\ qout' = qout /\ qmeta' = metaFile
    /\ UNCHANGED <<caller, qindex>>
    /\ QuerySame

\* retrieve, lines 87-144: the embedding call of the query may raise; after it
\* nothing touches the disk, and the handler replies from the handle it holds.
RetrieveRest ==
    /\ qpc = "embed_query"
    /\ \E ok \in BOOLEAN :
         qout' = IF ok THEN "replied" ELSE OnRetrieveError(caller)
    /\ qpc' = "done"
    /\ UNCHANGED <<caller, qindex, qmeta>>
    /\ QuerySame

\* The next message arrives.
HandlerEnd ==
    /\ qpc = "done"
    /\ qpc' = "idle"
    /\ caller' = "question"
    /\ qindex' = NoFile
    /\ qmeta' = NoFile
    /\ qout' = "none"
    /\ QuerySame

\* ---------------------------------------------------------- specification
\* No build is running and no message is being handled.
IdxRest ==
    /\ committed = Disk
    /\ startDisk = Disk
    /\ dataDocs = 0
    /\ cwdDocs = 0
    /\ bpc = "idle"
    /\ bid = 0
    /\ files = 0
    /\ fileIdx = 1
    /\ nchunks = 0
    /\ records = 0
    /\ vectors = 0
    /\ short = FALSE
    /\ qpc = "idle"
    /\ caller = "question"
    /\ qindex = NoFile
    /\ qmeta = NoFile
    /\ qout = "none"

IdxIdle ==
    /\ faissFile = NoFile
    /\ metaFile = NoFile
    /\ IdxRest

\* No call of retrieve is under way.
RetIdle ==
    /\ rpc = "idle"
    /\ query = <<>>
    /\ meta = <<>>
    /\ top_k = 1
    /\ relevance_threshold = 0
    /\ max_ctx_chars = 0
    /\ hits = <<>>
    /\ candidates = <<>>
    /\ chunks = <<>>
    /\ status = "NO_CONTEXT"
    /\ context = <<>>

\* No call of apply_bonuses is under way.
BonIdle ==
    /\ apc = "scored"
    /\ a_query = <<>>
    /\ a_rec = [path |-> <<>>, title |-> <<>>, section |-> <<>>]
    /\ a_base = 0
    /\ a_score = 0

\* No call of split_into_chunks is under way.
SplIdle ==
    /\ spc = "done"
    /\ s_text = <<>>
    /\ min_len = 1
    /\ max_len = 1
    /\ overlap = 0
    /\ s_i = 0
    /\ s_chunks = <<>>
    /\ s_starts = <<>>

\* The index directory is empty, or holds what an earlier build wrote.
Init ==
    /\ \E n \in 0..MaxChunks :
         /\ faissFile = IF n = 0 THEN NoFile ELSE Snapshot(0, n)[1]
         /\ metaFile = IF n = 0 THEN NoFile ELSE Snapshot(0, n)[2]
    /\ IdxRest
    /\ RetIdle
    /\ BonIdle
    /\ SplIdle

Next ==
    \/ BuildStart
    \/ BuildReadFile
    \/ BuildEmbed
    \/ BuildOpenIndex
    \/ BuildWriteIndex
    \/ BuildOpenMeta
    \/ BuildWriteMeta
    \/ BuildDone
    \/ BuildFail
    \/ BuildExit
    \/ HandlerStart
    \/ LoadReadIndex
    \/ LoadReadMeta
    \/ RetrieveRest
    \/ HandlerEnd

Spec == Init /\ [][Next]_vars

\* The build alone, with no message being handled.
NextBuild ==
    \/ BuildStart
    \/ BuildReadFile
    \/ BuildEmbed
    \/ BuildOpenIndex
    \/ BuildWriteIndex
    \/ BuildOpenMeta
    \/ BuildWriteMeta
    \/ BuildDone
    \/ BuildFail
    \/ BuildExit

SpecBuild == Init /\ [][NextBuild]_vars

\* retrieve, lines 82-144, from the handle load_index returned to the result.
\* The index may have one row more or less than meta has records (load_index
\* does not compare them).
Retrieve ==
    /\ rpc = "idle"
    /\ \E n \in 0..MaxRows, tk \in 1..MaxTopK :
       \E ntotal \in {n - 1, n, n + 1} \cap Nat :
       \E hs \in SearchResults(Min(tk * 2, n), ntotal), q \in Queries :
       \E q_norm \in {normalize(q)} :
       \E cands \in {CandidatesFrom(q_norm, MetaOf(n), hs, 1)} :
       \E cs \in {TopChunks(cands, tk)} :
       \E thr \in Thresholds, N \in 0..MaxCtx :
             /\ query' = q
             /\ meta' = MetaOf(n)
             /\ top_k' = tk
             /\ relevance_threshold' = thr
             /\ max_ctx_chars' = N
             /\ hits' = hs
             /\ candidates' = cands
             /\ chunks' = cs
             /\ status' = Gate(cs, thr)
             /\ context' = Context(cs, N)
    /\ rpc' = "returned"
    /\ UNCHANGED <<idxVars, bonVars, splVars>>

\* index.search with k = 0 (meta has no record): faiss either returns no hit,
\* as above, or refuses k = 0, depending on its version.
RetrieveRaises ==
    /\ rpc = "idle"
    /\ \E q \in Queries :
          /\ query' = q
          /\ meta' = MetaOf(0)
    /\ rpc' = "raised"
    /\ UNCHANGED <<top_k, relevance_threshold, max_ctx_chars, hits, candidates,
                   chunks, status, context>>
    /\ UNCHANGED <<idxVars, bonVars, splVars>>

\* The caller has the result; the next query starts afresh.
RetrieveReturn ==
    /\ rpc \in {"returned", "raised"}
    /\ rpc' = "idle"
    /\ query' = <<>>
    /\ meta' = <<>>
    /\ top_k' = 1
    /\ relevance_threshold' = 0
    /\ max_ctx_chars' = 0
    /\ hits' = <<>>
    /\ candidates' = <<>>
    /\ chunks' = <<>>
    /\ status' = "NO_CONTEXT"
    /\ context' = <<>>
    /\ UNCHANGED <<idxVars, bonVars, splVars>>

NextRetrieve ==
    \/ Retrieve
    \/ RetrieveRaises
    \/ RetrieveReturn

InitRetrieve == IdxIdle /\ RetIdle /\ BonIdle /\ SplIdle

SpecRetrieve == InitRetrieve /\ [][NextRetrieve]_vars

\* --------------------------------------------- apply_bonuses on its own
\* Queries: "Кондиционер не работает!", "касса не работает", "звук бизнес"
BonusQueries == { <<1050, 1086, 1085, 1076, 1080, 1094, 1080, 1086, 1085, 1077, 1088, 32, 1085, 1077, 32, 1088, 1072, 1073, 1086, 1090, 1072, 1077, 1090, 33>>,
                  <<1082, 1072, 1089, 1089, 1072, 32, 1085, 1077, 32, 1088, 1072, 1073, 1086, 1090, 1072, 1077, 1090>>,
                  <<1079, 1074, 1091, 1082, 32, 1073, 1080, 1079, 1085, 1077, 1089>> }

\* Paths: "kondicioner.md", "hvac/kondicioner-split.md", "kassa.md", "звук.md"
BonusPaths == { <<107, 111, 110, 100, 105, 99, 105, 111, 110, 101, 114, 46, 109, 100>>,
                <<104, 118, 97, 99, 47, 107, 111, 110, 100, 105, 99, 105, 111, 110, 101, 114, 45, 115, 112, 108, 105, 116, 46, 109, 100>>,
                <<107, 97, 115, 115, 97, 46, 109, 100>>,
                <<1079, 1074, 1091, 1082, 46, 109, 100>> }

\* Titles: "kondicioner", "Кондиционер", "Кондиционирование", "Касса",
\* "Звук Бизнес"
BonusTitles == { <<107, 111, 110, 100, 105, 99, 105, 111, 110, 101, 114>>,
                 <<1050, 1086, 1085, 1076, 1080, 1094, 1080, 1086, 1085, 1077, 1088>>,
                 <<1050, 1086, 1085, 1076, 1080, 1094, 1080, 1086, 1085, 1080, 1088, 1086, 1074, 1072, 1085, 1080, 1077>>,
                 <<1050, 1072, 1089, 1089, 1072>>,
                 <<1047, 1074, 1091, 1082, 32, 1041, 1080, 1079, 1085, 1077, 1089>> }

\* Sections: "", "Не работает"
BonusSections == { <<>>,
                   <<1053, 1077, 32, 1088, 1072, 1073, 1086, 1090, 1072, 1077, 1090>> }

\* The raw similarities: those of the search results, and 1.0.
BonusBases == Sims \cup {100}

BonusRecords == [path : BonusPaths, title : BonusTitles, section : BonusSections]

InitBonus ==
    /\ IdxIdle
    /\ RetIdle
    /\ SplIdle
    /\ a_query \in {normalize(q) : q \in BonusQueries}
    /\ a_rec \in BonusRecords
    /\ a_base \in BonusBases
    /\ a_score = 0
    /\ apc = "call"

\* One call of apply_bonuses.
ApplyBonuses ==
    /\ apc = "call"
    /\ a_score' = apply_bonuses(a_query, a_rec, a_base)
    /\ apc' = "scored"
    /\ UNCHANGED <<a_query, a_rec, a_base>>
    /\ UNCHANGED <<idxVars, retVars, splVars>>

NextBonus == ApplyBonuses

SpecBonus == InitBonus /\ [][NextBonus]_vars

\* ------------------------------------------- split_into_chunks on its own
\* The argument: texts of "a", "b", blanks and line ends.
SplitAlphabet == {97, 98, 32, 10}

Texts == UNION { [1..n -> SplitAlphabet] : n \in 0..MaxText }

\* re.sub(r"\s+", " ", text.strip()): no whitespace at either end, every run
\* of whitespace inside becomes one blank.
Collapse(t) == Join(Split(t), <<32>>)

\* text[a:b], for 0 <= a
Slice(t, a, b) == SubSeq(t, a + 1, Min(b, Len(t)))

\* A window one character longer than max_len.
WindowEndLong(t, i, mn, mx) == Min(i + mx + 1, Len(t))

\* `end` of the window that starts at i: i + max_len, or the end of the text;
\* when that chunk is shorter than min_len and the text goes on, i + min_len.
WindowEnd(t, i, mn, mx) ==
    LET end == Min(i + mx, Len(t))
    IN  IF Len(Slice(t, i, end)) < mn /\ end < Len(t)
        THEN Min(i + mn, Len(t))
        ELSE end

\* The next window starts one character after the overlap.
NextStartSkips(end, ov) == end - ov + 1

\* The next window starts where this one ended.
NextStartNoOverlap(end, ov) == end

\* The next window starts where this one started, at the latest.
NextStartStuck(end, ov) == 0

\* i = end - overlap, and 0 when that is negative.
NextStart(end, ov) == IF end - ov < 0 THEN 0 ELSE end - ov

SplitOthersSame == UNCHANGED <<idxVars, retVars, bonVars>>

\* Lines 23-25: the text is normalised, chunks = [], i = 0.
SplitEnter ==
    /\ spc = "call"
    /\ s_text' = Collapse(s_text)
    /\ s_i' = 0
    /\ s_chunks' = <<>>
    /\ s_starts' = <<>>
    /\ spc' = "loop"
    /\ UNCHANGED <<min_len, max_len, overlap>>
    /\ SplitOthersSame

\* Lines 26-38: one pass of the loop. It appends one chunk, and either
\* leaves the loop (the window reached the end of the text) or moves i.
SplitWindow ==
    /\ spc = "loop"
    /\ s_i < Len(s_text)
    /\ Len(s_chunks) < MaxIter
    /\ \E end \in {WindowEnd(s_text, s_i, min_len, max_len)} :
          /\ s_chunks' = Append(s_chunks, Slice(s_text, s_i, end))
          /\ s_starts' = Append(s_starts, s_i)
          /\ IF end = Len(s_text)
             THEN /\ spc' = "done"
                  /\ s_i' = s_i
             ELSE /\ spc' = "loop"
                  /\ s_i' = NextStart(end, overlap)
    /\ UNCHANGED <<s_text, min_len, max_len, overlap>>
    /\ SplitOthersSame

\* Line 26 false, line 39: the loop is left at its head.
SplitReturn ==
    /\ spc = "loop"
    /\ s_i >= Len(s_text)
    /\ spc' = "done"
    /\ UNCHANGED <<s_text, min_len, max_len, overlap, s_i, s_chunks, s_starts>>
    /\ SplitOthersSame

NextSplit ==
    \/ SplitEnter
    \/ SplitWindow
    \/ SplitReturn

InitSplit ==
    /\ IdxIdle
    /\ RetIdle
    /\ BonIdle
    /\ spc = "call"
    /\ s_text \in Texts
    /\ min_len \in 1..MaxParam
    /\ max_len \in 1..MaxParam
    /\ overlap \in 0..MaxParam
    /\ s_i = 0
    /\ s_chunks = <<>>
    /\ s_starts = <<>>

\* The function is sequential code: a step that can be taken is taken.
SpecSplit == InitSplit /\ [][NextSplit]_vars /\ WF_vars(NextSplit)

\* ------------------------------------------------------------------ claims

\* C1: the context retrieve returns is never longer than max_ctx_chars, the
\* blank-line separators between the blocks counted.
ContextWithinBudget ==
    rpc = "returned" => Len(context) <= max_ctx_chars

\* The places in the search result of the chunks returned.
ReturnedPos == {chunks[i].pos : i \in 1..Len(chunks)}

\* C8: the chunks returned are candidates, at most top_k of them, in order of
\* score with the highest first; of two with the same score the one the search
\* returned first stands first; and no candidate left out has a higher score
\* than one returned, nor the same score and an earlier place in the search.
RankedHighestFirst ==
    rpc = "returned" =>
        /\ Len(chunks) <= top_k
        /\ \A i \in 1..Len(chunks) :
             \E c \in 1..Len(candidates) :
                /\ candidates[c].pos = chunks[i].pos
                /\ candidates[c].score = chunks[i].score
                /\ candidates[c].rec.path = chunks[i].path
                /\ candidates[c].rec.text = chunks[i].text
        /\ \A i, j \in 1..Len(chunks) :
             i < j =>
                /\ chunks[i].score >= chunks[j].score
                /\ chunks[i].score = chunks[j].score => chunks[i].pos < chunks[j].pos
        /\ \A c \in 1..Len(candidates), i \in 1..Len(chunks) :
             candidates[c].pos \notin ReturnedPos =>
                /\ candidates[c].score <= chunks[i].score
                /\ candidates[c].score = chunks[i].score
                      => candidates[c].pos > chunks[i].pos

\* Two chunks of equal score are returned behind a hit that the search ranked
\* first and the bonuses ranked last, which is left out.
RankedTieSeen ==
    /\ rpc = "returned"
    /\ Len(candidates) = 3
    /\ Len(chunks) = 2
    /\ chunks[1].score = chunks[2].score
    /\ chunks[1].pos = 2
    /\ chunks[2].pos = 3
    /\ hits[1].sim > hits[2].sim

\* C9: the status is OK exactly when the mean of the scores of the chunks
\* returned (0 when there is none) is at least relevance_threshold, and
\* NO_CONTEXT otherwise; with the same chunks a lower threshold keeps OK and a
\* higher one keeps NO_CONTEXT.
GateIsMeanAtLeastThreshold ==
    rpc = "returned" =>
        /\ status \in {"OK", "NO_CONTEXT"}
        /\ status = "OK" <=>
              IF Len(chunks) = 0
                THEN 0 >= relevance_threshold
                ELSE SumScores(chunks) >= relevance_threshold * Len(chunks)
        /\ \A t \in Thresholds :
              /\ (t <= relevance_threshold /\ status = "OK")
                    => Gate(chunks, t) = "OK"
              /\ (t >= relevance_threshold /\ status = "NO_CONTEXT")
                    => Gate(chunks, t) = "NO_CONTEXT"

\* Two chunks of different score whose mean is exactly the threshold, with a
\* further candidate left out of the mean: the status is OK.
GateBoundarySeen ==
    /\ rpc = "returned"
    /\ Len(candidates) = 3
    /\ Len(chunks) = 2
    /\ chunks[1].score # chunks[2].score
    /\ relevance_threshold = 25
    /\ SumScores(chunks) = 50
    /\ status = "OK"

\* "кондиционер не работает", "kondicioner", "кондицион"
QueryKond == <<1082, 1086, 1085, 1076, 1080, 1094, 1080, 1086, 1085, 1077, 1088, 32, 1085, 1077, 32, 1088, 1072, 1073, 1086, 1090, 1072, 1077, 1090>>
PathKond == <<107, 111, 110, 100, 105, 99, 105, 111, 110, 101, 114>>
KwKond == <<1082, 1086, 1085, 1076, 1080, 1094, 1080, 1086, 1085>>

\* The case of C10: the query, a path with the Latin "kondicioner", and a
\* record the keyword "кондицион" matches.
KondCase ==
    /\ apc = "scored"
    /\ a_query = QueryKond
    /\ Contains(LowerStr(a_rec.path), PathKond)
    /\ \/ Contains(LowerStr(a_rec.path), KwKond)
       \/ Contains(LowerStr(a_rec.title), KwKond)
       \/ Contains(LowerStr(a_rec.section), KwKond)

\* The tokens of the query that count ("не" is too short) and occur in the
\* record's title, section or path.
KondTokensFound ==
    { t \in {<<1082, 1086, 1085, 1076, 1080, 1094, 1080, 1086, 1085, 1077, 1088>>,
             <<1088, 1072, 1073, 1086, 1090, 1072, 1077, 1090>>} :
        \/ Contains(LowerStr(a_rec.title), t)
        \/ Contains(LowerStr(a_rec.section), t)
        \/ Contains(LowerStr(a_rec.path), t) }

\* C10 as stated: in that case apply_bonuses adds a lexical-overlap bonus and
\* the keyword bonus, and the score is above the raw similarity.
KondGetsBothBonuses ==
    KondCase =>
        /\ a_score >= a_base + TermBonus + 5
        /\ a_score > a_base

\* C10 as amended: in that case apply_bonuses adds the keyword bonus, so the
\* score is above the raw similarity; it adds the lexical bonus once for each
\* of the tokens "кондиционер" and "работает" that occurs in the title, the
\* section or the path, and for nothing else.
KondGetsKeywordBonus ==
    KondCase =>
        /\ a_score > a_base
        /\ a_score = a_base + 5 + TermBonus * Cardinality(KondTokensFound)

\* The keyword matches through the title "Кондиционирование" and no token of
\* the query occurs in the record: the keyword bonus is all that is added.
KondKeywordOnlySeen ==
    /\ KondCase
    /\ KondTokensFound = {}
    /\ a_score = a_base + 5

\* C2: a build that fails or is interrupted, at whatever step, leaves both
\* faiss.index and meta.jsonl exactly as the last completely written snapshot.
BuildFailureKeepsSnapshot ==
    bpc \in {"failed", "embedding_failure"} => Disk = committed

\* C3: the index and the metadata a query has loaded come from the same build,
\* however the build's two writes and the query's two reads interleave.
QuerySeesOneSnapshot ==
    (qindex # NoFile /\ qmeta # NoFile) => qindex.build = qmeta.build

\* C4: load_index hands retrieve a handle only when both files were there and
\* the number of metadata records equals the number of rows of the index.
LoadedHandleConsistent ==
    qpc = "embed_query" =>
        /\ qindex # NoFile
        /\ qmeta # NoFile
        /\ qmeta.recs = qindex.rows

\* C5: when the embedder raises, or returns a number of vectors other than the
\* number of texts sent, the build ends with an embedding failure and has
\* written nothing.
EmbeddingMismatchAborts ==
    /\ short => bpc = "embedding_failure"
    /\ bpc = "embedding_failure" => Disk = startDisk

\* C6 as stated: with no eligible file under data_dir the build reports that
\* no files were found and writes nothing, whatever the working directory holds.
EmptyCorpusWritesNothing ==
    (bpc # "idle" /\ dataDocs = 0) => (bpc = "nofiles" /\ Disk = startDisk)

\* C6 as amended: with no eligible file under data_dir and none in the current
\* working directory either, the build reports that no files were found and
\* writes nothing; with eligible files in the working directory it builds the
\* index from those instead.
NoEligibleFileWritesNothing ==
    (bpc # "idle" /\ dataDocs = 0) =>
        IF cwdDocs = 0
          THEN bpc = "nofiles" /\ Disk = startDisk
          ELSE bpc # "nofiles" /\ files = cwdDocs

\* An index exists, a build found no eligible file anywhere and has returned.
NoEligibleFileSeen ==
    /\ bpc = "nofiles"
    /\ dataDocs = 0
    /\ cwdDocs = 0
    /\ faissFile # NoFile
    /\ Disk = committed

\* C7: whichever handler called retrieve, an exception raised inside it ends
\* in a reply; it does not leave the handler.
RetrieveFailureCaught == qout # "exception"

\* ------------------------------------------------- split_into_chunks
\* The parameters C11 speaks of.
ValidParams ==
    /\ 0 < min_len
    /\ min_len <= max_len
    /\ 0 <= overlap
    /\ overlap < max_len

\* A chunk after which the loop went on: every chunk but the last one of the
\* result, and every chunk appended so far while the loop runs.
NotLast(j) == j < Len(s_chunks) \/ spc = "loop"

\* C11: with 0 < min_len <= max_len and 0 <= overlap < max_len, every chunk
\* but the last is min_len to max_len characters long, and the last chunk is
\* at most max_len characters long.
ChunkLengthsInRange ==
    ValidParams =>
        \A j \in 1..Len(s_chunks) :
            /\ Len(s_chunks[j]) <= max_len
            /\ NotLast(j) => Len(s_chunks[j]) >= min_len

\* Several chunks were returned, and the last one is shorter than min_len.
ShortLastChunkSeen ==
    /\ spc = "done"
    /\ ValidParams
    /\ min_len > 1
    /\ Len(s_chunks) >= 2
    /\ Len(s_chunks[Len(s_chunks)]) < min_len

\* Where chunk j ends in the text.
ChunkEnd(j) == s_starts[j] + Len(s_chunks[j])

\* The first chunk, then of every later chunk what lies beyond the end of its
\* predecessor.
RECURSIVE Rebuilt(_)
Rebuilt(k) ==
    IF k = 0 THEN <<>>
    ELSE IF k = 1 THEN s_chunks[1]
    ELSE Rebuilt(k - 1) \o
         SubSeq(s_chunks[k], ChunkEnd(k - 1) - s_starts[k] + 1, Len(s_chunks[k]))

\* C12: the chunks returned cover the normalised text in order: the first
\* starts at offset 0, each next one starts at or before the end of the one
\* before it, the last one ends where the text ends, and the first chunk
\* followed by the parts of the later chunks beyond their overlap is the text.
ChunksCoverText ==
    spc = "done" =>
        /\ (s_text = <<>>) = (s_chunks = <<>>)
        /\ \A j \in 1..Len(s_chunks) :
              /\ s_chunks[j] = Slice(s_text, s_starts[j], ChunkEnd(j))
              /\ j = 1 => s_starts[j] = 0
              /\ j > 1 => s_starts[j] <= ChunkEnd(j - 1)
              /\ j = Len(s_chunks) => ChunkEnd(j) = Len(s_text)
        /\ Rebuilt(Len(s_chunks)) = s_text

\* Three chunks or more were returned, overlapping, of a text with a blank.
OverlappingCoverSeen ==
    /\ spc = "done"
    /\ Len(s_chunks) >= 3
    /\ overlap >= 1
    /\ \E k \in 1..Len(s_text) : s_text[k] = 32

\* C13: any two consecutive chunks returned overlap by exactly `overlap`
\* characters: the last `overlap` characters of the one are the first
\* `overlap` characters of the next, the last (possibly short) chunk included.
ConsecutiveChunksOverlap ==
    spc = "done" =>
        \A j \in 1..(Len(s_chunks) - 1) :
            /\ Len(s_chunks[j]) >= overlap
            /\ Len(s_chunks[j + 1]) >= overlap
            /\ SubSeq(s_chunks[j], Len(s_chunks[j]) - overlap + 1, Len(s_chunks[j]))
                 = SubSeq(s_chunks[j + 1], 1, overlap)
            /\ ChunkEnd(j) - s_starts[j + 1] = overlap

\* Chunks were returned that overlap, the last one shorter than max_len.
OverlapWithShortLastSeen ==
    /\ spc = "done"
    /\ ValidParams
    /\ overlap >= 1
    /\ Len(s_chunks) >= 2
    /\ Len(s_chunks[Len(s_chunks)]) < max_len

\* The loop is running on a normalised text longer than max_len, with an
\* overlap of max_len or more.
OverlapTooLong ==
    /\ spc # "call"
    /\ overlap >= max_len
    /\ Len(s_text) > max_len

\* From one window to the next the start offset grows.
StartAdvances == (spc = "loop" /\ spc' = "loop") => s_i' > s_i

\* C16 as stated: with 0 <= overlap < max_len the start offset grows from one
\* window to the next and the call returns; with overlap >= max_len and a
\* normalised text longer than max_len the start offset is 0 at every window
\* and the call never returns.
SplitEndsIffOverlapBelowMax ==
    /\ [][overlap < max_len => StartAdvances]_vars
    /\ (overlap < max_len) ~> (spc = "done")
    /\ [](OverlapTooLong => (spc # "done" /\ s_i = 0))

\* C16, amended: the same, the call never returning when overlap >= max_len,
\* the normalised text is longer than max_len, and min_len <= max_len.
SplitEndsIffOverlapBelowMaxLen ==
    /\ [][overlap < max_len => StartAdvances]_vars
    /\ (overlap < max_len) ~> (spc = "done")
    /\ []((OverlapTooLong /\ min_len <= max_len) => (spc # "done" /\ s_i = 0))

\* A call with overlap >= max_len and min_len <= max_len is still at offset 0
\* after more windows than the text has characters.
SplitStuckSeen ==
    /\ spc = "loop"
    /\ OverlapTooLong
    /\ min_len <= max_len
    /\ s_i = 0
    /\ Len(s_chunks) > Len(s_text)

\* -------------------------------------------------------- apply_bonuses
\* The distinct tokens of the query, of three characters or more, that are a
\* substring of the title, the section or the path of `rec` (in lower case).
QualifyingTokens(rec) ==
    LET toks == Split(a_query) IN
    { t \in {toks[k] : k \in 1..Len(toks)} :
        /\ Len(t) >= 3
        /\ \E f \in {rec.title, rec.section, rec.path} : Contains(LowerStr(f), t) }

\* The entries of the keyword table that apply to `rec`.
MatchingKeywords(rec) ==
    KeywordHits(a_query, LowerStr(rec.title), LowerStr(rec.section),
                LowerStr(rec.path))

\* C14: apply_bonuses returns the base similarity, plus 0.05 for each distinct
\* query token of length >= 3 found in the record's title, section or path,
\* plus the bonus of each matching entry of the keyword table; nothing caps
\* the sum, the result is never below the base similarity, and a record for
\* which more tokens and entries qualify never scores lower.
BonusesAddUp ==
    apc = "scored" =>
        /\ a_score = a_base + TermBonus * Cardinality(QualifyingTokens(a_rec))
                            + SumBonus(MatchingKeywords(a_rec))
        /\ a_score >= a_base
        /\ \A r \in BonusRecords :
              ( /\ QualifyingTokens(a_rec) \subseteq QualifyingTokens(r)
                /\ MatchingKeywords(a_rec) \subseteq MatchingKeywords(r) )
              => apply_bonuses(a_query, r, a_base) >= a_score

\* Two tokens and a keyword added their bonus, and the score went above 1.0.
BonusesAboveOneSeen ==
    /\ apc = "scored"
    /\ Cardinality(QualifyingTokens(a_rec)) >= 2
    /\ MatchingKeywords(a_rec) # {}
    /\ a_score >= a_base + 3 * TermBonus
    /\ a_score > 100

\* What the keyword-table entries added to the score.
KeywordPart ==
    a_score - a_base
      - TermBonus * Cardinality(TermHits(a_query, LowerStr(a_rec.title),
                                         LowerStr(a_rec.section),
                                         LowerStr(a_rec.path)))

InQuery(k) == Contains(a_query, KEYWORD_BOOSTS[k].kw)

FirstWordInPath(k) ==
    Contains(LowerStr(a_rec.path), Split(KEYWORD_BOOSTS[k].kw)[1])

InTitleOrSection(k) ==
    \/ Contains(LowerStr(a_rec.title), KEYWORD_BOOSTS[k].kw)
    \/ Contains(LowerStr(a_rec.section), KEYWORD_BOOSTS[k].kw)

\* C15 as stated: an entry of the keyword table adds its bonus exactly when
\* the query contains the keyword and the keyword's first word is in the
\* path, or the whole keyword is in the title or the section.
KeywordBonusWhenInTitleAlone ==
    apc = "scored" =>
        KeywordPart = SumBonus({ k \in 1..Len(KEYWORD_BOOSTS) :
                                   \/ InQuery(k) /\ FirstWordInPath(k)
                                   \/ InTitleOrSection(k) })

\* C15, amended: an entry of the keyword table adds its bonus exactly when
\* the query contains the keyword and either the keyword's first word is in
\* the path or the whole keyword is in the title or the section.
KeywordBonusOnlyWhenInQuery ==
    apc = "scored" =>
        KeywordPart = SumBonus({ k \in 1..Len(KEYWORD_BOOSTS) :
                                   /\ InQuery(k)
                                   /\ FirstWordInPath(k) \/ InTitleOrSection(k) })

\* A keyword of two words added its bonus through its first word in the path,
\* and a keyword in the title that the query does not contain added nothing.
KeywordByFirstWordSeen ==
    /\ apc = "scored"
    /\ \E k \in 1..Len(KEYWORD_BOOSTS) :
          /\ Len(Split(KEYWORD_BOOSTS[k].kw)) = 2
          /\ InQuery(k)
          /\ FirstWordInPath(k)
          /\ ~InTitleOrSection(k)
    /\ \E k \in 1..Len(KEYWORD_BOOSTS) : ~InQuery(k) /\ InTitleOrSection(k)
    /\ KeywordPart = 5

====
